---- MODULE Spec2Model ----
(***************************************************************************)
(* Model of rokit's tool identifier (src/lib/tool/id.rs): parsing          *)
(* (FromStr), rendering (Display), accessors, and the identity contract    *)
(* (PartialEq / Hash / Ord / PartialOrd).                                  *)
(*                                                                         *)
(* Text is a sequence of Unicode scalar values (code points).  Where the   *)
(* code works on the UTF-8 bytes of a String (hashing, ordering) the model *)
(* encodes the text with Utf8 first.                                       *)
(***************************************************************************)
EXTENDS Integers, Sequences, FiniteSets, TLC

VARIABLES
    pc,         \* position of the driver: which operation runs next
    forbidden,  \* the characters is_invalid_identifier rejects besides '/'
    s,          \* the text handed to from_str
    res,        \* what from_str(s) returned
    text,       \* what Display wrote for the parsed identifier
    res2,       \* what from_str(text) returned (deserialize of the serialized form)
    x, y,       \* two identifiers built by new_id_with_provider / new_id
    eqr,        \* x == y
    ordr,       \* x.cmp(&y)
    pord,       \* x.partial_cmp(&y)
    hx, hy,     \* the hashes of x and of y
    map,        \* a HashMap<ToolId, _>
    got         \* map.get(&y)

vars == <<pc, forbidden, s, res, text, res2, x, y, eqr, ordr, pord, hx, hy, map, got>>

----------------------------------------------------------------------------
(* Characters and text *)

Slash == 47
Colon == 58
Space == 32

\* The provider tag "github".
GitHubTag == <<103, 105, 116, 104, 117, 98>>

\* char::is_whitespace (Unicode White_Space) on the code points below 256.
IsWhitespace(c) == c \in {9, 10, 11, 12, 13, 32, 133, 160}

\* u8::to_ascii_lowercase / char::to_ascii_lowercase: only 'A'..'Z' change.
CharToAsciiLower(c) == IF c \in 65..90 THEN c + 32 ELSE c

\* str::to_ascii_lowercase
to_ascii_lowercase(str) == [i \in 1..Len(str) |-> CharToAsciiLower(str[i])]

Contains(str, c) == \E i \in 1..Len(str) : str[i] = c

\* Index of the first occurrence of c in str, 0 when there is none.
FindFirst(str, c) ==
    IF Contains(str, c)
    THEN CHOOSE i \in 1..Len(str) : str[i] = c /\ \A j \in 1..(i - 1) : str[j] # c
    ELSE 0

\* str::split_once(c): the text before and after the first c.
\* Only used when Contains(str, c).
SplitBefore(str, c) == SubSeq(str, 1, FindFirst(str, c) - 1)
SplitAfter(str, c) == SubSeq(str, FindFirst(str, c) + 1, Len(str))

RECURSIVE TrimStart(_)
TrimStart(str) ==
    IF str # <<>> /\ IsWhitespace(Head(str)) THEN TrimStart(Tail(str)) ELSE str

RECURSIVE TrimEnd(_)
TrimEnd(str) ==
    IF str # <<>> /\ IsWhitespace(str[Len(str)])
    THEN TrimEnd(SubSeq(str, 1, Len(str) - 1))
    ELSE str

\* str::trim
Trim(str) == TrimEnd(TrimStart(str))

----------------------------------------------------------------------------
(* External collaborators *)

\* enum ArtifactProvider: a closed enumeration; GitHub is its default.
ArtifactProvider == {"GitHub", "Other"}
DefaultProvider == "GitHub"

\* ArtifactProvider::from_str: ok with the provider, or an error whose text
\* is the tag it was given.
ProviderFromStr(tag) ==
    IF tag = GitHubTag
    THEN [ok |-> TRUE, provider |-> "GitHub", err |-> <<>>]
    ELSE [ok |-> FALSE, provider |-> DefaultProvider, err |-> tag]

\* super::util::is_invalid_identifier: rejects the empty segment, a segment
\* holding the path separator, and a segment holding any other forbidden
\* character (which those are is `forbidden`).
is_invalid_identifier(str) ==
    \/ str = <<>>
    \/ Contains(str, Slash)
    \/ \E c \in forbidden : Contains(str, c)

----------------------------------------------------------------------------
(* ToolId *)

NoId ==
    [provider |-> DefaultProvider, uncased_author |-> <<>>, uncased_name |-> <<>>,
     cased_author |-> <<>>, cased_name |-> <<>>]

Err(kind, arg) == [kind |-> kind, arg |-> arg, id |-> NoId]
Ok(id) == [kind |-> "Ok", arg |-> <<>>, id |-> id]
NoResult == [kind |-> "None", arg |-> <<>>, id |-> NoId]

\* ToolId::provider / author / name
provider(id) == id.provider
author(id) == id.cased_author
name(id) == id.cased_name

\* FromParts with trim_start in place of trim.
FromParts_TrimStartOnly(prov, before0, after0) ==
    LET before == TrimStart(before0)
        after == TrimStart(after0)
    IN  IF is_invalid_identifier(before) THEN Err("InvalidAuthor", before)
        ELSE IF is_invalid_identifier(after) THEN Err("InvalidName", after)
        ELSE Ok([provider |-> prov,
                 uncased_author |-> to_ascii_lowercase(before),
                 uncased_name |-> to_ascii_lowercase(after),
                 cased_author |-> before,
                 cased_name |-> after])

\* char::to_lowercase on the model's code points: Latin-1 capitals fold too.
CharToLower(c) == IF c \in (65..90) \cup (192..214) \cup (216..222) THEN c + 32 ELSE c

\* FromParts with to_lowercase in place of to_ascii_lowercase.
FromParts_UnicodeLower(prov, before0, after0) ==
    LET before == Trim(before0)
        after == Trim(after0)
    IN  IF is_invalid_identifier(before) THEN Err("InvalidAuthor", before)
        ELSE IF is_invalid_identifier(after) THEN Err("InvalidName", after)
        ELSE Ok([provider |-> prov,
                 uncased_author |-> [i \in 1..Len(before) |-> CharToLower(before[i])],
                 uncased_name |-> [i \in 1..Len(after) |-> CharToLower(after[i])],
                 cased_author |-> before,
                 cased_name |-> after])

\* from_str, lines 126..143: trim, validate, construct.
FromParts(prov, before0, after0) ==
    LET before == Trim(before0)
        after == Trim(after0)
    IN  IF is_invalid_identifier(before) THEN Err("InvalidAuthor", before)
        ELSE IF is_invalid_identifier(after) THEN Err("InvalidName", after)
        ELSE Ok([provider |-> prov,
                 uncased_author |-> to_ascii_lowercase(before),
                 uncased_name |-> to_ascii_lowercase(after),
                 cased_author |-> before,
                 cased_name |-> after])

\* Index of the last occurrence of c in str, 0 when there is none.
FindLast(str, c) ==
    IF Contains(str, c)
    THEN CHOOSE i \in 1..Len(str) : str[i] = c /\ \A j \in (i + 1)..Len(str) : str[j] # c
    ELSE 0

\* FromRest with rsplit_once in place of split_once.
FromRest_SplitLast(prov, after_provider) ==
    IF ~Contains(after_provider, Slash) THEN Err("MissingSeparator", <<>>)
    ELSE FromParts(prov, SubSeq(after_provider, 1, FindLast(after_provider, Slash) - 1),
                   SubSeq(after_provider, FindLast(after_provider, Slash) + 1,
                          Len(after_provider)))

\* from_str, lines 122..124: split "the rest" at its first '/'.
FromRest(prov, after_provider) ==
    IF ~Contains(after_provider, Slash) THEN Err("MissingSeparator", <<>>)
    ELSE FromParts(prov, SplitBefore(after_provider, Slash),
                   SplitAfter(after_provider, Slash))

\* from_str that reads the provider tag only once the rest has parsed.
from_str_RestFirst(str) ==
    IF str = <<>> THEN Err("Empty", <<>>)
    ELSE IF ~Contains(str, Colon) THEN FromRest(DefaultProvider, str)
    ELSE LET left == SplitBefore(str, Colon)
             right == SplitAfter(str, Colon)
             p == ProviderFromStr(left)
             r == FromRest(p.provider, right)
         IN  IF r.kind # "Ok" THEN r
             ELSE IF ~p.ok THEN Err("InvalidProvider", p.err)
             ELSE r

\* impl FromStr for ToolId
from_str(str) ==
    IF str = <<>> THEN Err("Empty", <<>>)
    ELSE IF ~Contains(str, Colon) THEN FromRest(DefaultProvider, str)
    ELSE LET left == SplitBefore(str, Colon)
             right == SplitAfter(str, Colon)
             p == ProviderFromStr(left)
         IN  IF ~p.ok THEN Err("InvalidProvider", p.err)
             ELSE FromRest(p.provider, right)

\* Display that writes the lowercased fields.
Display_Uncased(id) == id.uncased_author \o <<Slash>> \o id.uncased_name

\* impl fmt::Display for ToolId
Display(id) == id.cased_author \o <<Slash>> \o id.cased_name

----------------------------------------------------------------------------
(* The parse / render / re-parse driver *)

MaxLen == 5

\* ' '  '/'  ':'  'B'  'a'  'E-acute'
Alphabet == {Space, Slash, Colon, 66, 97, 201}

Texts(n) == UNION {[1..k -> Alphabet] : k \in 0..n}

Prefixes == {<<>>, GitHubTag \o <<Colon>>}

Inputs == {p \o b : p \in Prefixes, b \in Texts(MaxLen)}

Init ==
    /\ pc = "parse"
    /\ forbidden \in {{}, {Colon}}
    /\ s \in Inputs
    /\ res = NoResult
    /\ text = <<>>
    /\ res2 = NoResult
    /\ x = NoId /\ y = NoId
    /\ eqr = FALSE /\ ordr = "None" /\ pord = <<>>
    /\ hx = 0 /\ hy = 0
    /\ map = <<>>
    /\ got = <<>>

\* s.parse::<ToolId>()
Parse ==
    /\ pc = "parse"
    /\ res' = from_str(s)
    /\ pc' = IF res'.kind = "Ok" THEN "render" ELSE "failed"
    /\ UNCHANGED <<forbidden, s, text, res2, x, y, eqr, ordr, pord, hx, hy, map, got>>

\* id.to_string(), the serialized form (SerializeDisplay)
Render ==
    /\ pc = "render"
    /\ text' = Display(res.id)
    /\ pc' = "reparse"
    /\ UNCHANGED <<forbidden, s, res, res2, x, y, eqr, ordr, pord, hx, hy, map, got>>

\* deserializing the serialized form (DeserializeFromStr)
Reparse ==
    /\ pc = "reparse"
    /\ res2' = from_str(text)
    /\ pc' = "done"
    /\ UNCHANGED <<forbidden, s, res, text, x, y, eqr, ordr, pord, hx, hy, map, got>>

Next == Parse \/ Render \/ Reparse

Spec == Init /\ [][Next]_vars

----------------------------------------------------------------------------
(* Identity: PartialEq, Hash, Ord, PartialOrd *)

\* The UTF-8 encoding of a code point below 2048.
Utf8(c) == IF c < 128 THEN <<c>> ELSE <<192 + (c \div 64), 128 + (c % 64)>>

\* str::as_bytes
RECURSIVE Bytes(_)
Bytes(str) == IF str = <<>> THEN <<>> ELSE Utf8(Head(str)) \o Bytes(Tail(str))

\* <[u8] as Ord>::cmp: lexicographic, a proper prefix is Less.
RECURSIVE BytesCmp(_, _)
BytesCmp(a, b) ==
    IF a = <<>> THEN (IF b = <<>> THEN "Equal" ELSE "Less")
    ELSE IF b = <<>> THEN "Greater"
    ELSE IF Head(a) < Head(b) THEN "Less"
    ELSE IF Head(a) > Head(b) THEN "Greater"
    ELSE BytesCmp(Tail(a), Tail(b))

\* <String as Ord>::cmp
StrCmp(a, b) == BytesCmp(Bytes(a), Bytes(b))

\* Ordering::then_with
ThenWith(first, second) == IF first = "Equal" THEN second ELSE first

\* <str as Hash>::hash: the bytes, then 0xff, written to the hasher.
StrHash(str, state) == state \o Bytes(str) \o <<255>>

\* Hasher::finish: a deterministic digest of everything written.
RECURSIVE Finish(_, _)
Finish(state, h) ==
    IF state = <<>> THEN h ELSE Finish(Tail(state), (h * 31 + Head(state)) % 65536)

\* eq as #[derive(PartialEq)] would write it: every field.
eq_Derived(a, b) == a = b

\* impl PartialEq for ToolId
eq(a, b) ==
    a.uncased_author = b.uncased_author /\ a.uncased_name = b.uncased_name

\* hash over the cased fields.
hash_Cased(id, state) == StrHash(id.cased_name, StrHash(id.cased_author, state))

\* impl Hash for ToolId: what it writes to the hasher.
hash(id, state) == StrHash(id.uncased_name, StrHash(id.uncased_author, state))

\* BuildHasher::hash_one
HashOne(id) == Finish(hash(id, <<>>), 0)

\* cmp over the cased fields.
cmp_Cased(a, b) ==
    ThenWith(StrCmp(a.cased_author, b.cased_author),
             StrCmp(a.cased_name, b.cased_name))

\* impl Ord for ToolId
cmp(a, b) ==
    ThenWith(StrCmp(a.uncased_author, b.uncased_author),
             StrCmp(a.uncased_name, b.uncased_name))

\* impl PartialOrd for ToolId: Some(ordering), written <<ordering>>.
partial_cmp(a, b) == <<cmp(a, b)>>

\* tests::new_id_with_provider
new_id_with_provider(prov, a, n) ==
    [provider |-> prov,
     uncased_author |-> to_ascii_lowercase(a),
     uncased_name |-> to_ascii_lowercase(n),
     cased_author |-> a,
     cased_name |-> n]

\* tests::new_id
new_id(a, n) == new_id_with_provider(DefaultProvider, a, n)

----------------------------------------------------------------------------
(* HashMap<ToolId, V>: buckets chosen by the key's hash, searched with == *)

NBuckets == 3

EmptyMap == [b \in 0..(NBuckets - 1) |-> <<>>]

BucketOf(k) == HashOne(k) % NBuckets

\* Position of the entry whose key == k in a bucket, 0 when there is none.
FindEntry(bucket, k) ==
    IF \E i \in 1..Len(bucket) : eq(bucket[i].key, k)
    THEN CHOOSE i \in 1..Len(bucket) : eq(bucket[i].key, k)
    ELSE 0

\* HashMap::insert: an equal key keeps its place and takes the new value.
MapInsert(m, k, v) ==
    LET b == BucketOf(k)
        i == FindEntry(m[b], k)
    IN  IF i = 0
        THEN [m EXCEPT ![b] = Append(@, [key |-> k, value |-> v])]
        ELSE [m EXCEPT ![b][i].value = v]

\* HashMap::get: Some(value) written <<value>>, None written <<>>.
MapGet(m, k) ==
    LET b == BucketOf(k)
        i == FindEntry(m[b], k)
    IN  IF i = 0 THEN <<>> ELSE <<m[b][i].value>>

----------------------------------------------------------------------------
(* The identity driver *)

MaxIdLen == 1

\* 'B'  'b'  'E-acute'
IdAlphabet == {66, 98, 201}

IdTexts == UNION {[1..k -> IdAlphabet] : k \in 1..MaxIdLen}

ToolIds == {new_id_with_provider(p, a, n) : p \in ArtifactProvider, a \in IdTexts, n \in IdTexts}

InitIdentity ==
    /\ pc = "eq"
    /\ forbidden = {}
    /\ s = <<>>
    /\ res = NoResult
    /\ text = <<>>
    /\ res2 = NoResult
    /\ x \in ToolIds
    /\ y \in ToolIds
    /\ eqr = FALSE /\ ordr = "None" /\ pord = <<>>
    /\ hx = 0 /\ hy = 0
    /\ map = EmptyMap
    /\ got = <<>>

\* x == y
DoEq ==
    /\ pc = "eq"
    /\ eqr' = eq(x, y)
    /\ pc' = "cmp"
    /\ UNCHANGED <<forbidden, s, res, text, res2, x, y, ordr, pord, hx, hy, map, got>>

\* x.cmp(&y)
DoCmp ==
    /\ pc = "cmp"
    /\ ordr' = cmp(x, y)
    /\ pc' = "partial_cmp"
    /\ UNCHANGED <<forbidden, s, res, text, res2, x, y, eqr, pord, hx, hy, map, got>>

\* x.partial_cmp(&y)
DoPartialCmp ==
    /\ pc = "partial_cmp"
    /\ pord' = partial_cmp(x, y)
    /\ pc' = "hash"
    /\ UNCHANGED <<forbidden, s, res, text, res2, x, y, eqr, ordr, hx, hy, map, got>>

\* hashing x and y with the same hasher
DoHash ==
    /\ pc = "hash"
    /\ hx' = HashOne(x)
    /\ hy' = HashOne(y)
    /\ pc' = "insert"
    /\ UNCHANGED <<forbidden, s, res, text, res2, x, y, eqr, ordr, pord, map, got>>

\* map.insert(x, 1)
DoInsert ==
    /\ pc = "insert"
    /\ map' = MapInsert(map, x, 1)
    /\ pc' = "get"
    /\ UNCHANGED <<forbidden, s, res, text, res2, x, y, eqr, ordr, pord, hx, hy, got>>

\* map.get(&y)
DoGet ==
    /\ pc = "get"
    /\ got' = MapGet(map, y)
    /\ pc' = "done"
    /\ UNCHANGED <<forbidden, s, res, text, res2, x, y, eqr, ordr, pord, hx, hy, map>>

NextIdentity == DoEq \/ DoCmp \/ DoPartialCmp \/ DoHash \/ DoInsert \/ DoGet

SpecIdentity == InitIdentity /\ [][NextIdentity]_vars

----------------------------------------------------------------------------
(* Properties of parsing and rendering, checked under Spec *)

Count(str, c) == Cardinality({i \in 1..Len(str) : str[i] = c})

\* ASCII lowercasing, stated character by character.
IsAsciiLowerOf(low, str) ==
    /\ Len(low) = Len(str)
    /\ \A i \in 1..Len(str) :
           low[i] = (IF 65 <= str[i] /\ str[i] <= 90 THEN str[i] + 32 ELSE str[i])

AsciiLower(str) ==
    [i \in 1..Len(str) |-> IF 65 <= str[i] /\ str[i] <= 90 THEN str[i] + 32 ELSE str[i]]

Parsed == pc # "parse" /\ pc # "eq"
ParsedOk == Parsed /\ res.kind = "Ok"

\* The input has the shape a + "/" + b of the spec's parse property.
OneSlash == Count(s, Slash) = 1
PartA == SplitBefore(s, Slash)
PartB == SplitAfter(s, Slash)

\* The provider step of from_str let the input through, and what it left.
ProviderStepOk ==
    s # <<>> /\ (Contains(s, Colon) => ProviderFromStr(SplitBefore(s, Colon)).ok)
Rest == IF Contains(s, Colon) THEN SplitAfter(s, Colon) ELSE s
RestBefore == Trim(SplitBefore(Rest, Slash))
RestAfter == Trim(SplitAfter(Rest, Slash))

\* C4 as the spec states it: for every non-empty, slash-free a and b that are
\* non-empty after trimming, parse(a + "/" + b) succeeds with the default
\* provider, author() = trim(a) and name() = trim(b).
C4_ParseAnySlashFree ==
    (Parsed /\ OneSlash /\ Trim(PartA) # <<>> /\ Trim(PartB) # <<>>)
        => /\ res.kind = "Ok"
           /\ provider(res.id) = DefaultProvider
           /\ author(res.id) = Trim(PartA)
           /\ name(res.id) = Trim(PartB)

\* C4 amended: the same for a and b that also hold no ':' (the only further
\* character the validity predicate may forbid); and the result is the one
\* parse gives for trim(a) + "/" + trim(b).
C4_ParseColonFree ==
    (Parsed /\ OneSlash /\ Trim(PartA) # <<>> /\ Trim(PartB) # <<>>
       /\ ~Contains(s, Colon))
        => /\ res.kind = "Ok"
           /\ provider(res.id) = DefaultProvider
           /\ author(res.id) = Trim(PartA)
           /\ name(res.id) = Trim(PartB)
           /\ res = from_str(Trim(PartA) \o <<Slash>> \o Trim(PartB))

\* " a/ B" parsed to author "a", name "B".
C4_Witness ==
    /\ ParsedOk
    /\ s = <<Space, 97, Slash, Space, 66>>
    /\ author(res.id) = <<97>>
    /\ name(res.id) = <<66>>

\* C5: a colon is the provider delimiter only when it comes before any '/':
\* then the text left of it goes to the provider parser and the text right of
\* it is the rest; otherwise the provider is the default and the whole input
\* is the rest (a colon after the first slash never triggers provider parsing).
C5_ColonOnlyBeforeSlash ==
    (Parsed /\ s # <<>>)
        => IF Contains(s, Colon)
              /\ (Contains(s, Slash) => FindFirst(s, Colon) < FindFirst(s, Slash))
           THEN LET p == ProviderFromStr(SplitBefore(s, Colon))
                IN  IF p.ok THEN res = FromRest(p.provider, SplitAfter(s, Colon))
                    ELSE res.kind = "InvalidProvider"
           ELSE res = FromRest(DefaultProvider, s)

C7_ErrorKinds ==
    Parsed =>
        /\ s = <<>> => res = Err("Empty", <<>>)
        /\ (ProviderStepOk /\ ~Contains(Rest, Slash))
               => res = Err("MissingSeparator", <<>>)
        /\ (ProviderStepOk /\ Contains(Rest, Slash) /\ is_invalid_identifier(RestBefore))
               => res = Err("InvalidAuthor", RestBefore)
        /\ (ProviderStepOk /\ Contains(Rest, Slash) /\ ~is_invalid_identifier(RestBefore)
              /\ is_invalid_identifier(RestAfter))
               => res = Err("InvalidName", RestAfter)
        /\ (ProviderStepOk /\ Count(Rest, Slash) >= 2 /\ ~is_invalid_identifier(RestBefore))
               => res.kind = "InvalidName" /\ Contains(res.arg, Slash)
        /\ Count(s, Slash) >= 2 => res.kind # "Ok"

\* "a/B/a" failed with InvalidName("B/a").
C7_Witness ==
    /\ Parsed
    /\ s = <<97, Slash, 66, Slash, 97>>
    /\ res = Err("InvalidName", <<66, Slash, 97>>)

Rendered == pc \in {"reparse", "done"}

\* C8: author() and name() are the trimmed original-case segments, render
\* writes author() + "/" + name() and never the provider tag, so an input
\* with a provider tag renders like the same input without it.
C8_RenderCased ==
    Rendered =>
        /\ author(res.id) = RestBefore
        /\ name(res.id) = RestAfter
        /\ text = author(res.id) \o <<Slash>> \o name(res.id)
        /\ (Contains(s, Colon) /\ from_str(Rest).kind = "Ok")
               => text = Display(from_str(Rest).id)

\* "github:a/B" rendered as "a/B".
C8_Witness ==
    /\ Rendered
    /\ s = GitHubTag \o <<Colon, 97, Slash, 66>>
    /\ provider(res.id) = "GitHub"
    /\ text = <<97, Slash, 66>>

\* The input with every E-acute replaced by e-acute.
SmallAcute(str) == [i \in 1..Len(str) |-> IF str[i] = 201 THEN 233 ELSE str[i]]

\* C9: a parsed identifier has uncased = asciiLower(cased) for both fields,
\* cased fields that are trimmed, non-empty, slash-free and valid; only A-Z
\* are lowercased, so the same input with a non-ASCII letter in the other case
\* parses to an identifier that is not equal.
C9_ParsedInvariant ==
    ParsedOk =>
        /\ IsAsciiLowerOf(res.id.uncased_author, res.id.cased_author)
        /\ IsAsciiLowerOf(res.id.uncased_name, res.id.cased_name)
        /\ \A f \in {res.id.cased_author, res.id.cased_name} :
               /\ f = Trim(f)
               /\ f # <<>>
               /\ ~Contains(f, Slash)
               /\ ~is_invalid_identifier(f)
        /\ (Contains(author(res.id), 201) \/ Contains(name(res.id), 201))
               => LET r == from_str(SmallAcute(s))
                  IN  r.kind = "Ok" /\ ~eq(r.id, res.id)

\* "E-acute/B" parsed: the name is lowercased to "b", the author is not changed.
C9_Witness ==
    /\ ParsedOk
    /\ s = <<201, Slash, 66>>
    /\ res.id.uncased_author = <<201>>
    /\ res.id.uncased_name = <<98>>

----------------------------------------------------------------------------
(* Properties of identity, checked under SpecIdentity *)

Compared == pc \in {"cmp", "partial_cmp", "hash", "insert", "get", "done"}
Ordered == pc \in {"partial_cmp", "hash", "insert", "get", "done"}
Hashed == pc \in {"insert", "get", "done"}

\* x and y have the same ASCII-lowercased author and name.
SameUncased(a, b) ==
    /\ AsciiLower(author(a)) = AsciiLower(author(b))
    /\ AsciiLower(name(a)) = AsciiLower(name(b))

\* C1: x == y exactly when the ASCII-lowercased authors and the
\* ASCII-lowercased names agree; the provider and the casing play no part.
C1_EqIffUncased ==
    Compared => (eqr <=> SameUncased(x, y))

\* "B/b" on GitHub equals "b/B" on another provider.
C1_Witness ==
    /\ Compared
    /\ x = new_id_with_provider("Other", <<66>>, <<98>>)
    /\ y = new_id(<<98>>, <<66>>)
    /\ eqr

\* C2: equal identifiers hash equally, and a key inserted in a map is found
\* by any identifier that differs from it only in ASCII case or provider.
C2_HashConsistent ==
    /\ Hashed => (eq(x, y) => hx = hy)
    /\ pc \in {"get", "done"} => MapGet(map, x) = <<1>>
    /\ pc = "done" => (SameUncased(x, y) <=> got = <<1>>)

\* "B/b" was inserted and found with "b/B" of another provider.
C2_Witness ==
    /\ pc = "done"
    /\ author(x) # author(y)
    /\ name(x) # name(y)
    /\ provider(x) # provider(y)
    /\ hx = hy
    /\ got = <<1>>

\* Lexicographic order of two texts by code point, stated by the first place
\* where they differ.
LexLess(a, b) ==
    \E k \in 1..Len(b) :
        /\ k <= Len(a) + 1
        /\ \A j \in 1..(k - 1) : a[j] = b[j]
        /\ (k = Len(a) + 1 \/ a[k] < b[k])

LexCmp(a, b) == IF a = b THEN "Equal" ELSE IF LexLess(a, b) THEN "Less" ELSE "Greater"

\* Lexicographic order of (lowercased author, lowercased name).
PairCmp(a, b) ==
    IF LexCmp(AsciiLower(author(a)), AsciiLower(author(b))) # "Equal"
    THEN LexCmp(AsciiLower(author(a)), AsciiLower(author(b)))
    ELSE LexCmp(AsciiLower(name(a)), AsciiLower(name(b)))

Reverse(o) == IF o = "Less" THEN "Greater" ELSE IF o = "Greater" THEN "Less" ELSE o

\* The third identifier of a transitivity check: every identifier with
\* one-character author and name.
Pivots ==
    {new_id_with_provider(p, <<a>>, <<n>>) :
         p \in ArtifactProvider, a \in IdAlphabet, n \in IdAlphabet}

\* C3: cmp is the lexicographic order of (lowercased author, lowercased
\* name), author first; it is antisymmetric and transitive, Equal exactly
\* when x == y, and partial_cmp is Some(cmp).
C3_TotalOrder ==
    /\ Ordered =>
           /\ ordr = PairCmp(x, y)
           /\ cmp(y, x) = Reverse(ordr)
           /\ (ordr = "Equal") <=> eq(x, y)
    /\ pc = "partial_cmp" =>
           \A z \in Pivots :
               /\ (ordr = "Less" /\ cmp(y, z) # "Greater") => cmp(x, z) = "Less"
               /\ (ordr = "Less" /\ cmp(z, x) # "Greater") => cmp(z, y) = "Less"
               /\ (cmp(x, z) = "Less" /\ cmp(z, y) = "Less") => ordr = "Less"
               /\ (ordr = "Equal") => cmp(x, z) = cmp(y, z)
    /\ pc \in {"hash", "insert", "get", "done"} => pord = <<ordr>>

\* Same author up to case, so the names decide: "B/b" < "b/E-acute".
C3_Witness ==
    /\ pc = "hash"
    /\ x = new_id(<<66>>, <<98>>)
    /\ y = new_id_with_provider("Other", <<98>>, <<201>>)
    /\ ordr = "Less"
    /\ pord = <<"Less">>

====
